---------------------------- MODULE Spec2Model ----------------------------
(***************************************************************************)
(* A model of wpwatcher/parser.py, the WPScan output parser of WPWatcher.  *)
(*                                                                         *)
(* Text.  A Python string is modelled as a sequence of tokens; a token is  *)
(* a piece of text that the parser only ever looks at as a whole (a        *)
(* marker such as "[!]", a phrase such as "The version could not be        *)
(* determined", a colour code, a blank, a newline).  The substring test    *)
(* `x in s` is the contiguous-subsequence test on tokens, so two texts     *)
(* that differ in one word ("The version ..." against "The plugin or       *)
(* theme version ...") stay different.                                     *)
(*                                                                         *)
(* The module holds one specification per part of the parser:              *)
(*   SpecFilter  WPScanJsonParser.ignore_false_positives/is_false_positive *)
(*   SpecParser  WPScanJsonParser.get_infos/get_warnings/get_alerts        *)
(*   SpecItem    WPItem (with Finding, Vulnerability, WPItemVersion)       *)
(*   SpecCli     parse_cli and parse_cli_toogle (transcript mode)          *)
(*   SpecJson    parse_json and its helpers (structured mode)              *)
(*   SpecResults      parse_results, the dispatch between the two modes    *)
(*   SpecCliCompound  parse_cli on one block that may announce             *)
(*                    vulnerabilities                                      *)
(*   SpecComponent    the get_infos/get_warnings/get_alerts of the classes *)
(*   SpecToogle       parse_cli_toogle on the lines of one block           *)
(* A specification leaves the variables of the other parts at their idle   *)
(* values.                                                                 *)
(***************************************************************************)
EXTENDS Integers, Sequences, FiniteSets, TLC

VARIABLES
    \* ignore_false_positives(messages, false_positives_strings)
    ifp_input,      \* the list as it was handed to the first call
    ifp_messages,   \* the list object, filtered in place
    ifp_strings,    \* false_positives_strings
    ifp_calls,      \* how many times the filter has run on the list
    ifp_first,      \* the list as it was after the first call
    \* WPScanJsonParser
    components,               \* self.components: what each component returns
    false_positives_strings,  \* self.false_positives_strings
    p_infos,                  \* what get_infos() returned
    p_warnings,               \* what get_warnings() returned
    p_alerts,                 \* what get_alerts() returned
    p_called,                 \* the methods called so far
    \* one WPItem
    item_data,      \* the mapping handed to WPItem(data)
    item_pc,        \* "new", "built" or the exception __init__ raised
    item_alerts,    \* what get_alerts() returned
    item_warnings,  \* what get_warnings() returned
    item_called,    \* the methods called so far
    \* parse_cli(wpscan_output, false_positives)
    wpscan_output,    \* wpscan_output.splitlines(): the raw lines
    false_positives,  \* the false-positive strings
    cli_pc,           \* "start", "loop", "done" or the exception raised
    line_no,          \* lines of wpscan_output.splitlines()+[""] consumed
    message_lines,
    current_message,
    warning_on,
    alert_on,
    messages,
    warnings,
    alerts,
    \* parse_json(data)
    data,           \* the decoded report
    json_pc,        \* "start", "done" or the exception raised
    json_infos,
    json_warnings,
    json_alerts,
    \* parse_results(wpscan_output, false_positives)
    pr_output,           \* the text handed in
    pr_false_positives,  \* the false-positive strings handed in
    pr_pc,               \* "start", the pipeline running, "done" or the exception
    is_json,
    pr_result,           \* the three lists returned
    \* one component of the structured report
    c_class,        \* the class of the component
    c_data,         \* the arguments of its constructor
    c_pc,           \* "new", "built" or the exception __init__ raised
    c_returned,     \* what each of its three methods returned
    \* parse_cli_toogle(line, warning_on, alert_on), called on its own
    t_features,     \* what the line is made of
    t_in,           \* the incoming <<warning_on, alert_on>>
    t_out,          \* the returned <<warning_on, alert_on>>
    t_pc            \* "call" or "returned"

filterVars == <<ifp_input, ifp_messages, ifp_strings, ifp_calls, ifp_first>>
parserVars == <<components, false_positives_strings, p_infos, p_warnings,
                p_alerts, p_called>>
itemVars == <<item_data, item_pc, item_alerts, item_warnings, item_called>>
cliVars == <<wpscan_output, false_positives, cli_pc, line_no, message_lines,
             current_message, warning_on, alert_on, messages, warnings, alerts>>
jsonVars == <<data, json_pc, json_infos, json_warnings, json_alerts>>

resultsVars == <<pr_output, pr_false_positives, pr_pc, is_json, pr_result>>
componentVars == <<c_class, c_data, c_pc, c_returned>>
toogleVars == <<t_features, t_in, t_out, t_pc>>

vars == <<filterVars, parserVars, itemVars, cliVars, jsonVars, resultsVars,
          componentVars, toogleVars>>

\* The idle values: what a part's variables hold in the specifications of
\* the other parts.
IdleFilter ==
    /\ ifp_input = <<>>
    /\ ifp_messages = <<>>
    /\ ifp_strings = {}
    /\ ifp_calls = 0
    /\ ifp_first = <<>>

IdleParser ==
    /\ components = <<>>
    /\ false_positives_strings = {}
    /\ p_infos = <<>>
    /\ p_warnings = <<>>
    /\ p_alerts = <<>>
    /\ p_called = {}

IdleItem ==
    /\ item_data = <<>>
    /\ item_pc = "idle"
    /\ item_alerts = <<>>
    /\ item_warnings = <<>>
    /\ item_called = {}

IdleCli ==
    /\ wpscan_output = <<>>
    /\ false_positives = {}
    /\ cli_pc = "idle"
    /\ line_no = 0
    /\ message_lines = <<>>
    /\ current_message = <<>>
    /\ warning_on = FALSE
    /\ alert_on = FALSE
    /\ messages = <<>>
    /\ warnings = <<>>
    /\ alerts = <<>>

IdleJson ==
    /\ data = <<>>
    /\ json_pc = "idle"
    /\ json_infos = <<>>
    /\ json_warnings = <<>>
    /\ json_alerts = <<>>

IdleResults ==
    /\ pr_output = <<>>
    /\ pr_false_positives = {}
    /\ pr_pc = "idle"
    /\ is_json = FALSE
    /\ pr_result = <<>>

IdleComponent ==
    /\ c_class = "idle"
    /\ c_data = <<>>
    /\ c_pc = "idle"
    /\ c_returned = <<>>

IdleToogle ==
    /\ t_features = [markers |-> {}, phrase |-> "none", insecure |-> FALSE,
                     undetermined |-> FALSE]
    /\ t_in = <<FALSE, FALSE>>
    /\ t_out = <<FALSE, FALSE>>
    /\ t_pc = "idle"

-----------------------------------------------------------------------------
(* Bounds of the model. *)

\* longest message and longest false-positive string, in tokens (SpecFilter)
MaxTokens == 2
\* longest message list handed to the filter (SpecFilter)
MaxMsgs == 3
\* most false-positive strings in a rule list (SpecFilter)
MaxRules == 2
\* most components of a WPScanJsonParser (SpecParser)
MaxComponents == 2
\* longest warning list and longest alert list of a component (SpecParser)
MaxComponentMsgs == 2
\* most vulnerabilities an item lists (SpecItem)
MaxVulns == 2
\* most lines of a transcript (SpecCli)
MaxLines == 4
\* most lines under the heading of a block (SpecCliBlock)
MaxBlockLines == 5
\* most plugins of a report (SpecJson)
MaxPlugins == 2

-----------------------------------------------------------------------------
(* Text helpers: Python's str and list operations on token sequences. *)

\* all sequences over S of length lo..hi
SeqsOf(S, lo, hi) == UNION {[1..n -> S] : n \in lo..hi}

\* Python `sub in s` for strings
Contains(s, sub) ==
    \E i \in 0..(Len(s) - Len(sub)) : SubSeq(s, i + 1, i + Len(sub)) = sub

\* Python list.remove(x): drops the first element equal to x
ListRemove(list, x) ==
    LET j == CHOOSE k \in 1..Len(list) :
                 /\ list[k] = x
                 /\ \A h \in 1..(k - 1) : list[h] # x
    IN  SubSeq(list, 1, j - 1) \o SubSeq(list, j + 1, Len(list))

\* Python a + b + ... over a list of lists
RECURSIVE Flatten(_)
Flatten(lists) ==
    IF lists = <<>> THEN <<>> ELSE Head(lists) \o Flatten(Tail(lists))

-----------------------------------------------------------------------------
(* WPScanJsonParser.is_false_positive and ignore_false_positives. *)

\* is_false_positive: some false-positive string occurs in the text.  The
\* Python returns True or falls off the end (None); callers only test its
\* truth value.
IsFalsePositive(string, fp_strings) ==
    \E fp_string \in fp_strings : Contains(string, fp_string)

\* The for loop of ignore_false_positives(messages, false_positives_strings).  Python's list iterator keeps an
\* index into the live list: each round reads msgs[i] if i is still
\* inside the list, and the body may shorten the list with remove().
RECURSIVE IgnoreLoop(_, _, _)
IgnoreLoop(msgs, i, fp_strings) ==
    IF i > Len(msgs)
    THEN msgs
    ELSE IF IsFalsePositive(msgs[i], fp_strings)
         THEN IgnoreLoop(ListRemove(msgs, msgs[i]), i + 1, fp_strings)
         ELSE IgnoreLoop(msgs, i + 1, fp_strings)

IgnoreFalsePositives(msgs, fp_strings) ==
    IgnoreLoop(msgs, 1, fp_strings)

-----------------------------------------------------------------------------
(* SpecFilter: a caller filters one list, then filters the result again. *)

FilterTokens == {"a", "b"}
FilterMessages == SeqsOf(FilterTokens, 1, MaxTokens)
FilterRuleSets ==
    {R \in SUBSET SeqsOf(FilterTokens, 1, MaxTokens) : Cardinality(R) <= MaxRules}

InitFilter ==
    /\ IdleParser /\ IdleItem /\ IdleCli /\ IdleJson
    /\ IdleResults /\ IdleComponent /\ IdleToogle
    /\ ifp_input \in SeqsOf(FilterMessages, 0, MaxMsgs)
    /\ ifp_messages = ifp_input
    /\ ifp_strings \in FilterRuleSets
    /\ ifp_calls = 0
    /\ ifp_first = <<>>

\* messages = ignore_false_positives(messages, false_positives_strings)
CallIgnoreFalsePositives ==
    /\ ifp_calls < 2
    /\ ifp_messages' = IgnoreFalsePositives(ifp_messages, ifp_strings)
    /\ ifp_calls' = ifp_calls + 1
    /\ ifp_first' = IF ifp_calls = 0 THEN ifp_messages' ELSE ifp_first
    /\ UNCHANGED <<ifp_input, ifp_strings>>
    /\ UNCHANGED <<parserVars, itemVars, cliVars, jsonVars,
                   resultsVars, componentVars, toogleVars>>

NextFilter == CallIgnoreFalsePositives

SpecFilter == InitFilter /\ [][NextFilter]_vars

-----------------------------------------------------------------------------
(* Claims about the false-positive filter. *)

\* the messages of a list that are not false positives, in their order
Survivors(list, rules) ==
    SelectSeq(list, LAMBDA m : ~IsFalsePositive(m, rules))

\* C1: after one call the list holds exactly the messages of the input for
\* which is_false_positive is false, in their original order.
C1_FilterRemovesExactlyFalsePositives ==
    ifp_calls = 1 => ifp_messages = Survivors(ifp_input, ifp_strings)

\* C3: filtering the result of the filter again with the same strings gives
\* the same list.
C3_FilterIdempotent ==
    ifp_calls = 2 => ifp_messages = ifp_first

-----------------------------------------------------------------------------
(* WPScanJsonParser.get_infos, get_warnings, get_alerts. *)

\* the phrase get_warnings looks for in a lone warning
VersionPhrase == <<"The ", "version could not be determined">>

\* the text WPItem.get_warnings appends for an item of unrecognized version
UndeterminedNotice(slug) ==
    <<slug, "\n", "The ", "plugin or theme ", "version could not be determined",
      " by WPScan, all known vulnerabilities are listed. ", "\n",
      "Add vulnerabilities titles to false positves strings to ignore these messages.">>

\* "[False positive]\n" + alert
FalsePositivePrefixed(alert) == <<"[False positive]", "\n">> \o alert

\* one round of get_infos' loop: the component's infos, then every alert
\* and warning of it that is a false positive, prefixed
ComponentInfos(component, fp_strings) ==
    LET flagged == SelectSeq(component.alerts \o component.warnings,
                             LAMBDA m : IsFalsePositive(m, fp_strings))
    IN  component.infos
          \o [k \in 1..Len(flagged) |-> FalsePositivePrefixed(flagged[k])]

\* one round of get_warnings' loop
ComponentWarnings(component, fp_strings) ==
    LET component_warnings == IgnoreFalsePositives(component.warnings, fp_strings)
    IN  IF /\ Len(component_warnings) = 1
           /\ Contains(component_warnings[1], VersionPhrase)
        THEN <<>>
        ELSE component_warnings

\* one round of get_alerts' loop
ComponentAlerts(component, fp_strings) ==
    IgnoreFalsePositives(component.alerts, fp_strings)

GetInfos(comps, fp_strings) ==
    Flatten([k \in 1..Len(comps) |-> ComponentInfos(comps[k], fp_strings)])

GetWarnings(comps, fp_strings) ==
    Flatten([k \in 1..Len(comps) |-> ComponentWarnings(comps[k], fp_strings)])

GetAlerts(comps, fp_strings) ==
    Flatten([k \in 1..Len(comps) |-> ComponentAlerts(comps[k], fp_strings)])

-----------------------------------------------------------------------------
(* SpecParser: a parser over given components; its three methods are       *)
(* called once each, in any order.                                         *)

ParserInfoMsgs == {<<"i">>}
ParserWarningMsgs == {UndeterminedNotice("slug"), <<"a">>, <<"b">>}
ParserAlertMsgs == {<<"a">>, <<"b">>}
ParserRuleSets == {{}, {<<"a">>}}

\* what a component returns: fresh lists on every call
ParserComponents ==
    [infos : SeqsOf(ParserInfoMsgs, 0, 1),
     warnings : SeqsOf(ParserWarningMsgs, 0, MaxComponentMsgs),
     alerts : SeqsOf(ParserAlertMsgs, 0, MaxComponentMsgs)]

InitParser ==
    /\ IdleFilter /\ IdleItem /\ IdleCli /\ IdleJson
    /\ IdleResults /\ IdleComponent /\ IdleToogle
    /\ components \in SeqsOf(ParserComponents, 0, MaxComponents)
    /\ false_positives_strings \in ParserRuleSets
    /\ p_infos = <<>>
    /\ p_warnings = <<>>
    /\ p_alerts = <<>>
    /\ p_called = {}

ParserGetInfos ==
    /\ "get_infos" \notin p_called
    /\ p_infos' = GetInfos(components, false_positives_strings)
    /\ p_called' = p_called \cup {"get_infos"}
    /\ UNCHANGED <<components, false_positives_strings, p_warnings, p_alerts>>
    /\ UNCHANGED <<filterVars, itemVars, cliVars, jsonVars,
                   resultsVars, componentVars, toogleVars>>

ParserGetWarnings ==
    /\ "get_warnings" \notin p_called
    /\ p_warnings' = GetWarnings(components, false_positives_strings)
    /\ p_called' = p_called \cup {"get_warnings"}
    /\ UNCHANGED <<components, false_positives_strings, p_infos, p_alerts>>
    /\ UNCHANGED <<filterVars, itemVars, cliVars, jsonVars,
                   resultsVars, componentVars, toogleVars>>

ParserGetAlerts ==
    /\ "get_alerts" \notin p_called
    /\ p_alerts' = GetAlerts(components, false_positives_strings)
    /\ p_called' = p_called \cup {"get_alerts"}
    /\ UNCHANGED <<components, false_positives_strings, p_infos, p_warnings>>
    /\ UNCHANGED <<filterVars, itemVars, cliVars, jsonVars,
                   resultsVars, componentVars, toogleVars>>

NextParser == ParserGetInfos \/ ParserGetWarnings \/ ParserGetAlerts

SpecParser == InitParser /\ [][NextParser]_vars

-----------------------------------------------------------------------------
(* Claims about WPScanJsonParser. *)

\* the number of messages the components hold before any filtering
MessagesBeforeFiltering ==
    Len(Flatten([k \in 1..Len(components) |->
            components[k].infos \o components[k].warnings \o components[k].alerts]))

\* C2: returned alerts + returned warnings + returned infos (the original
\* infos and the prefixed false positives) number as many as the messages
\* before filtering: what filtering removes reappears as an info, and
\* nothing is both kept and re-surfaced.
C2_NothingLostNothingTwice ==
    p_called = {"get_infos", "get_warnings", "get_alerts"}
        => Len(p_alerts) + Len(p_warnings) + Len(p_infos) = MessagesBeforeFiltering

\* what C4 expects of one component: its filtered warnings, or nothing when
\* they are the notice alone
ExpectedComponentWarnings(component, fp_strings) ==
    LET kept == IgnoreFalsePositives(component.warnings, fp_strings)
    IN  IF kept = <<UndeterminedNotice("slug")>> THEN <<>> ELSE kept

\* C4: a component whose warnings are, after filtering, the "version could
\* not be determined" notice alone yields no warning; any other filtered
\* warnings list is returned unchanged.
C4_LoneNoticeSuppressed ==
    "get_warnings" \in p_called
        => p_warnings = Flatten([k \in 1..Len(components) |->
               ExpectedComponentWarnings(components[k], false_positives_strings)])

-----------------------------------------------------------------------------
(* The components of the structured report: Vulnerability, Finding,        *)
(* WPItemVersion, WPItem.                                                  *)
(*                                                                         *)
(* A mapping is a record; a key that is absent or null is the token        *)
(* "None" (data.get(key, None)); a dict is a sequence of [ref, links]      *)
(* pairs in insertion order.  Every constructor calls                      *)
(* super().__init__(self, data), which hands self twice and raises         *)
(* TypeError when run; the model follows the field assignments of the      *)
(* constructors, so that the methods can be examined as written.           *)

\* Python truth of a str or None field
Truthy(value) == value \notin {"None", ""}

\* Python truth of an instance of Component: no class of the file defines
\* __bool__ or __len__, so every instance is true
ObjectTruth(instance) == TRUE

\* str.title() on the reference keys
StrTitle(ref) ==
    CASE ref = "url" -> "Url"
      [] ref = "cve" -> "Cve"
      [] ref = "wpvulndb" -> "Wpvulndb"
      [] ref = "insecure" -> "Insecure"
      [] ref = "latest" -> "Latest"
      [] OTHER -> ref

\* the lines Vulnerability.get_alerts adds for one reference key
ReferenceLines(entry) ==
    Flatten([k \in 1..Len(entry.links) |->
        IF entry.ref = "cve"
        THEN <<"\n- CVE: http://cve.mitre.org/cgi-bin/cvename.cgi?name=CVE-",
               entry.links[k]>>
        ELSE IF entry.ref = "wpvulndb"
        THEN <<"\n- WPVulnDB: https://wpvulndb.com/vulnerabilities/", entry.links[k]>>
        ELSE <<"\n- ", StrTitle(entry.ref), ": ", entry.links[k]>>])

\* Vulnerability.get_alerts: one alert, the title first
VulnerabilityAlert(vuln) ==
    <<vuln.title>>
      \o (IF Truthy(vuln.cvss) THEN <<"\nCVSS: ", vuln.cvss>> ELSE <<>>)
      \o (IF Truthy(vuln.fixed_in) THEN <<"\nFixed in: ", vuln.fixed_in>>
                                   ELSE <<"\nNot fixed yet">>)
      \o (IF vuln.references # <<>>
          THEN <<"\nReferences: ">>
                 \o Flatten([k \in 1..Len(vuln.references) |->
                                ReferenceLines(vuln.references[k])])
          ELSE <<>>)

\* Finding.get_alerts: the alerts of self.vulnerabilities
FindingGetAlerts(finding) ==
    [k \in 1..Len(finding.vulnerabilities) |->
        VulnerabilityAlert(finding.vulnerabilities[k])]

\* WPItemVersion.get_alerts
WPItemVersionGetAlerts(version) == FindingGetAlerts(version)

\* WPItem._get_warnings: no warning, or one
WPItemOwnWarnings(item) ==
    LET issue_data ==
            (IF item.outdated
             THEN <<"\nThe version is out of date, the latest version is ",
                    item.latest_version>>
             ELSE <<>>)
              \o (IF item.directory_listing
                  THEN <<"\nDirectory listing is enabled">> ELSE <<>>)
              \o (IF Truthy(item.error_log_url)
                  THEN <<"\nAn error log file has been found: ", item.error_log_url>>
                  ELSE <<>>)
    IN  IF issue_data = <<>>
        THEN <<>>
        ELSE << <<item.slug>> \o issue_data
                  \o (IF Truthy(item.location)
                      THEN <<"\nLocation: ", item.location>> ELSE <<>>) >>

\* WPItem.get_alerts
WPItemGetAlerts(item) ==
    IF ObjectTruth(item.version)
    THEN FindingGetAlerts(item) \o WPItemVersionGetAlerts(item.version)
    ELSE <<>>

\* WPItem.get_warnings
WPItemGetWarnings(item) ==
    WPItemOwnWarnings(item)
      \o (IF ~ObjectTruth(item.version) /\ FindingGetAlerts(item) # <<>>
          THEN <<UndeterminedNotice(item.slug)>> \o FindingGetAlerts(item)
          ELSE <<>>)

-----------------------------------------------------------------------------
(* SpecItem: one WPItem is built from a mapping, then asked for its alerts *)
(* and its warnings.                                                       *)

VulnerabilityData ==
    { [title |-> "a", cvss |-> "None", fixed_in |-> "None", references |-> <<>>],
      [title |-> "b", cvss |-> "7.5", fixed_in |-> "1.1",
       references |-> <<[ref |-> "cve", links |-> <<"2020-1234">>]>>],
      [title |-> "c", cvss |-> "None", fixed_in |-> "None",
       references |-> <<[ref |-> "url", links |-> <<"u">>]>>] }

\* data.get('version', None): None (the key is absent or null), or a mapping,
\* which is empty when it has neither a number nor vulnerabilities
VersionData ==
    {[kind |-> "None", number |-> "None", vulnerabilities |-> <<>>]}
      \cup [kind : {"dict"}, number : {"None", "1.0"},
            vulnerabilities : SeqsOf(VulnerabilityData, 0, 1)]

ItemData ==
    [slug : {"slug"},
     location : {"None", "loc"},
     latest_version : {"None", "2.0"},
     outdated : BOOLEAN,
     directory_listing : BOOLEAN,
     error_log_url : {"None", "log"},
     version : VersionData,
     vulnerabilities : SeqsOf(VulnerabilityData, 0, MaxVulns)]

InitItem ==
    /\ IdleFilter /\ IdleParser /\ IdleCli /\ IdleJson
    /\ IdleResults /\ IdleComponent /\ IdleToogle
    /\ item_data \in ItemData
    /\ item_pc = "new"
    /\ item_alerts = <<>>
    /\ item_warnings = <<>>
    /\ item_called = {}

\* WPItem(data): Finding.__init__, then the fields, then
\* WPItemVersion(data.get('version', None)), whose Finding.__init__ calls
\* data.get on what it is given
WPItemInit ==
    /\ item_pc = "new"
    /\ item_pc' = IF item_data.version.kind = "None" THEN "AttributeError"
                                                      ELSE "built"
    /\ UNCHANGED <<item_data, item_alerts, item_warnings, item_called>>
    /\ UNCHANGED <<filterVars, parserVars, cliVars, jsonVars,
                   resultsVars, componentVars, toogleVars>>

ItemGetAlerts ==
    /\ item_pc = "built"
    /\ "get_alerts" \notin item_called
    /\ item_alerts' = WPItemGetAlerts(item_data)
    /\ item_called' = item_called \cup {"get_alerts"}
    /\ UNCHANGED <<item_data, item_pc, item_warnings>>
    /\ UNCHANGED <<filterVars, parserVars, cliVars, jsonVars,
                   resultsVars, componentVars, toogleVars>>

ItemGetWarnings ==
    /\ item_pc = "built"
    /\ "get_warnings" \notin item_called
    /\ item_warnings' = WPItemGetWarnings(item_data)
    /\ item_called' = item_called \cup {"get_warnings"}
    /\ UNCHANGED <<item_data, item_pc, item_alerts>>
    /\ UNCHANGED <<filterVars, parserVars, cliVars, jsonVars,
                   resultsVars, componentVars, toogleVars>>

NextItem == WPItemInit \/ ItemGetAlerts \/ ItemGetWarnings

SpecItem == InitItem /\ [][NextItem]_vars

-----------------------------------------------------------------------------
(* Claims about WPItem. *)

\* the version of the item could not be determined: the report has no
\* 'version' for it, or an empty one
VersionUndetermined(item) ==
    \/ item.version.kind = "None"
    \/ /\ item.version.number = "None"
       /\ item.version.vulnerabilities = <<>>

\* every vulnerability the report lists for the item, rendered
ListedVulnerabilities(item) ==
    FindingGetAlerts(item) \o FindingGetAlerts(item.version)

\* s ends with t
EndsWith(s, t) ==
    /\ Len(t) <= Len(s)
    /\ SubSeq(s, Len(s) - Len(t) + 1, Len(s)) = t

\* C5: an item of undetermined version that lists vulnerabilities returns
\* no alert, and its warnings end with the notice followed by every one of
\* those vulnerabilities; an item of determined version returns its
\* vulnerabilities as alerts and none of them as a warning; no vulnerability
\* is in both lists.
C5_UndeterminedVersionDemotesVulnerabilities ==
    LET undetermined == VersionUndetermined(item_data)
        listed == ListedVulnerabilities(item_data)
    IN  /\ ("get_alerts" \in item_called /\ undetermined /\ listed # <<>>)
              => item_alerts = <<>>
        /\ ("get_warnings" \in item_called /\ undetermined /\ listed # <<>>)
              => EndsWith(item_warnings,
                          <<UndeterminedNotice(item_data.slug)>> \o listed)
        /\ ("get_alerts" \in item_called /\ ~undetermined)
              => item_alerts = listed
        /\ ("get_warnings" \in item_called /\ ~undetermined)
              => \A k \in 1..Len(item_warnings) :
                     \A j \in 1..Len(listed) : item_warnings[k] # listed[j]
        /\ item_called = {"get_alerts", "get_warnings"}
              => \A k \in 1..Len(item_warnings) :
                     \A j \in 1..Len(item_alerts) : item_warnings[k] # item_alerts[j]

-----------------------------------------------------------------------------
(* Transcript mode: parse_cli_toogle and parse_cli.                        *)
(*                                                                         *)
(* The escape character is the token "ESC"; "[33m", "[31m" and "[0m" are   *)
(* the colour codes that follow it.                                        *)

Whitespace == {" ", "\n"}

\* what the pattern (\x1b|\[[0-9][0-9]?m) matches
ColorTokens == {"ESC", "[33m", "[31m", "[0m"}

\* the phrases that make an uncoloured [!] a warning
WarningPhrases ==
    {"The version is out of date", "No WPVulnDB API Token given",
     "You can get a free API token"}

\* str.strip(): drops the leading and the trailing whitespace
StrStrip(s) ==
    LET solid == {k \in 1..Len(s) : s[k] \notin Whitespace}
    IN  IF solid = {}
        THEN <<>>
        ELSE SubSeq(s, CHOOSE k \in solid : \A h \in solid : k <= h,
                       CHOOSE k \in solid : \A h \in solid : k >= h)

\* '\n'.join(strs)
RECURSIVE StrJoin(_)
StrJoin(strs) ==
    IF strs = <<>> THEN <<>>
    ELSE IF Len(strs) = 1 THEN strs[1]
    ELSE strs[1] \o <<"\n">> \o StrJoin(Tail(strs))

\* str.splitlines(): the lines of s, no empty last line after a final newline
RECURSIVE SplitLines(_)
SplitLines(s) ==
    IF s = <<>> THEN <<>>
    ELSE LET breaks == {k \in 1..Len(s) : s[k] = "\n"}
         IN  IF breaks = {}
             THEN <<s>>
             ELSE LET k == CHOOSE b \in breaks : \A h \in breaks : b <= h
                  IN  <<SubSeq(s, 1, k - 1)>> \o SplitLines(SubSeq(s, k + 1, Len(s)))

\* re.sub(r'(\x1b|\[[0-9][0-9]?m)', '', line)
RemoveColors(line) == SelectSeq(line, LAMBDA t : t \notin ColorTokens)

\* [m for m in lines if m not in ["", "|"]]
WithoutBlankAndBar(lines) == SelectSeq(lines, LAMBDA m : m \notin {<<>>, <<"|">>})

\* the toggle step without the demotion of the undetermined version
ParseCliToogleNoDemotion(line, w_on, a_on) ==
    LET marked ==
            IF Contains(line, <<"[33m", "[!]">>) THEN <<TRUE, a_on>>
            ELSE IF Contains(line, <<"[31m", "[!]">>) THEN <<w_on, TRUE>>
            ELSE IF /\ Contains(line, <<"[!]">>)
                    /\ \E m \in WarningPhrases : Contains(line, <<m>>)
                 THEN <<TRUE, a_on>>
            ELSE IF Contains(line, <<"[!]">>) THEN <<w_on, TRUE>>
            ELSE <<w_on, a_on>>
    IN  IF Contains(line, <<"Insecure">>) THEN <<TRUE, marked[2]>> ELSE marked

\* parse_cli_toogle(line, warning_on, alert_on): the new <<warning_on, alert_on>>
ParseCliToogle(line, w_on, a_on) ==
    LET marked ==
            IF Contains(line, <<"[33m", "[!]">>) THEN <<TRUE, a_on>>
            ELSE IF Contains(line, <<"[31m", "[!]">>) THEN <<w_on, TRUE>>
            ELSE IF /\ Contains(line, <<"[!]">>)
                    /\ \E m \in WarningPhrases : Contains(line, <<m>>)
                 THEN <<TRUE, a_on>>
            ELSE IF Contains(line, <<"[!]">>) THEN <<w_on, TRUE>>
            ELSE <<w_on, a_on>>
        insecure ==
            IF Contains(line, <<"Insecure">>) THEN <<TRUE, marked[2]>> ELSE marked
    IN  IF Contains(line, VersionPhrase) /\ insecure[2]
        THEN <<TRUE, FALSE>>
        ELSE insecure

\* the module-level is_false_positive(string, false_positives) that parse_cli
\* calls: the file defines no function of that name outside WPScanJsonParser
ModuleIsFalsePositive(string, fp_strings) ==
    \E fp_string \in fp_strings : Contains(string, fp_string)

\* the block taken for one that announces vulnerabilities at any "[!]"
AnnouncesAnyMarker(message) == Contains(message, <<"[!]">>)

\* any(s in current_message for s in [...]): the block announces vulnerabilities
AnnouncesVulnerabilities(message) ==
    \E s \in {"vulnerabilities identified", "vulnerability identified"} :
        Contains(message, <<s>>)

\* messages_separated: the block cut before each bar-only line, and before
\* the bar appended at its end
RECURSIVE SeparateLoop(_, _)
SeparateLoop(lines, msg) ==
    IF lines = <<>> THEN <<>>
    ELSE IF StrStrip(Head(lines)) = <<"|">>
         THEN <<StrJoin(WithoutBlankAndBar(msg))>>
                \o SeparateLoop(Tail(lines), <<Head(lines)>>)
         ELSE SeparateLoop(Tail(lines), Append(msg, Head(lines)))

MessagesSeparated(lines) == SeparateLoop(Append(lines, <<"|">>), <<>>)

\* '| [!] Title' in m.splitlines()[0], for a non-empty m
IsTitleSection(m) ==
    Contains(SplitLines(m)[1], <<"|", " ", "[!]", " ", "Title">>)

\* wpscan_output.splitlines()+[""]
CliLoopLines(output) == Append(SplitLines(output), <<>>)

\* the check done on the marker "[!]" instead
NotACliLogWrongMarker(output) == ~Contains(output, <<"[!]">>)

\* the check of parse_cli before anything is read: no "[+]" in the output
NotACliLog(output) == ~Contains(output, <<"[+]">>)

-----------------------------------------------------------------------------
(* SpecCli and SpecCliBlock: parse_cli on one transcript, one action per   *)
(* round of its loop.  SpecCli reads any lines in any order; SpecCliBlock  *)
(* reads one longer block under a "[+]" heading, without blank lines.      *)

PlusLine == <<"[+]", " ", "p">>
BarLine == <<" ", "|">>
AnnounceLine == <<" ", "|", " ", "[!]", " ", "1 ", "vulnerability identified", ":">>
TitleLineA == <<" ", "|", " ", "[!]", " ", "Title", ": a">>
TitleLineB == <<" ", "|", " ", "[!]", " ", "Title", ": b">>
UndeterminedLine == <<" ", "|", " ", "The ", "version could not be determined", ".">>
ColorWarningLine ==
    <<"ESC", "[33m", "[!]", "ESC", "[0m", " ", "The version is out of date">>

CliLines ==
    {PlusLine, <<>>, BarLine, AnnounceLine, TitleLineA, UndeterminedLine,
     ColorWarningLine}

CliFalsePositives == {{}, {<<": a">>}}

\* the transcripts of SpecCli: up to MaxLines lines joined by newlines
CliOutputs == {StrJoin(ls) : ls \in SeqsOf(CliLines, 0, MaxLines)}

BlockLines ==
    {BarLine, AnnounceLine, TitleLineA, TitleLineB, UndeterminedLine,
     ColorWarningLine}

BlockFalsePositives == {{<<": a">>}}

\* the transcripts of SpecCliBlock: the heading, then up to MaxBlockLines lines
BlockOutputs ==
    {StrJoin(<<PlusLine>> \o ls) : ls \in SeqsOf(BlockLines, 0, MaxBlockLines)}

\* the state in which parse_cli(output, fp_strings) is entered
CliEntered(outputs, fp_sets) ==
    /\ IdleFilter /\ IdleParser /\ IdleItem /\ IdleJson
    /\ IdleResults /\ IdleComponent /\ IdleToogle
    /\ wpscan_output \in outputs
    /\ false_positives \in fp_sets
    /\ cli_pc = "start"
    /\ line_no = 0
    /\ message_lines = <<>>
    /\ current_message = <<>>
    /\ warning_on = FALSE
    /\ alert_on = FALSE
    /\ messages = <<>>
    /\ warnings = <<>>
    /\ alerts = <<>>

InitCli == CliEntered(CliOutputs, CliFalsePositives)

InitCliBlock == CliEntered(BlockOutputs, BlockFalsePositives)

\* parse_cli up to its loop: the format check, then the empty lists and the
\* toggles
ParseCliStart ==
    /\ cli_pc = "start"
    /\ cli_pc' = IF NotACliLog(wpscan_output) THEN "ValueError" ELSE "loop"
    /\ messages' = <<>>
    /\ warnings' = <<>>
    /\ alerts' = <<>>
    /\ warning_on' = FALSE
    /\ alert_on' = FALSE
    /\ message_lines' = <<>>
    /\ current_message' = <<>>
    /\ UNCHANGED <<wpscan_output, false_positives, line_no>>
    /\ UNCHANGED <<filterVars, parserVars, itemVars, jsonVars,
                   resultsVars, componentVars, toogleVars>>

\* one round of the loop of parse_cli; the round of the last line, the ""
\* appended to the output's lines, ends the loop and returns
ParseCliLine ==
    /\ cli_pc = "loop"
    /\ LET loop_lines == CliLoopLines(wpscan_output)
           stripped == StrStrip(loop_lines[line_no + 1])
           toggles == ParseCliToogle(stripped, warning_on, alert_on)
           w_on == toggles[1]
           a_on == toggles[2]
           line == RemoveColors(stripped)
           lines == Append(message_lines, line)
           current == StrStrip(StrJoin(WithoutBlankAndBar(lines)))
           after == IF line_no + 1 = Len(loop_lines) THEN "done" ELSE "loop"
           separated == MessagesSeparated(lines)
           sections == {k \in 1..Len(separated) : separated[k] # <<>>}
           vulnerabilities ==
               SelectSeq(separated, LAMBDA m : m # <<>> /\ IsTitleSection(m))
           plugin_infos ==
               StrJoin(SelectSeq(separated, LAMBDA m : m # <<>> /\ ~IsTitleSection(m)))
           real == SelectSeq(vulnerabilities,
                             LAMBDA v : ~ModuleIsFalsePositive(v, false_positives))
       IN  /\ line_no' = line_no + 1
           /\ IF StrStrip(line) # <<>> \/ StrStrip(current) = <<>>
              THEN \* continue: the block is still open
                   /\ cli_pc' = after
                   /\ message_lines' = lines
                   /\ current_message' = current
                   /\ warning_on' = w_on
                   /\ alert_on' = a_on
                   /\ UNCHANGED <<messages, warnings, alerts>>
              ELSE IF (a_on \/ w_on) /\ AnnouncesVulnerabilities(current)
              THEN IF Cardinality(sections) < Len(separated)
                   THEN \* ''.splitlines()[0]
                        /\ cli_pc' = "IndexError"
                        /\ message_lines' = lines
                        /\ current_message' = current
                        /\ warning_on' = w_on
                        /\ alert_on' = a_on
                        /\ UNCHANGED <<messages, warnings, alerts>>
                   ELSE /\ cli_pc' = after
                        /\ alerts' = IF a_on THEN alerts \o vulnerabilities ELSE alerts
                        /\ warnings' =
                             (IF ~a_on /\ w_on THEN warnings \o vulnerabilities
                                               ELSE warnings)
                               \o (IF Len(real) > 0 THEN <<plugin_infos>> ELSE <<>>)
                        /\ messages' =
                             IF Len(real) > 0
                             THEN messages
                             ELSE Append(messages, FalsePositivePrefixed(plugin_infos))
                        /\ message_lines' = <<>>
                        /\ current_message' = <<>>
                        /\ warning_on' = FALSE
                        /\ alert_on' = FALSE
              ELSE /\ cli_pc' = after
                   /\ warnings' = IF w_on THEN Append(warnings, current) ELSE warnings
                   /\ messages' = IF w_on THEN messages ELSE Append(messages, current)
                   /\ UNCHANGED alerts
                   /\ message_lines' = <<>>
                   /\ current_message' = <<>>
                   /\ warning_on' = FALSE
                   /\ alert_on' = FALSE
    /\ UNCHANGED <<wpscan_output, false_positives>>
    /\ UNCHANGED <<filterVars, parserVars, itemVars, jsonVars,
                   resultsVars, componentVars, toogleVars>>

NextCli == ParseCliStart \/ ParseCliLine

SpecCli == InitCli /\ [][NextCli]_vars

SpecCliBlock == InitCliBlock /\ [][NextCli]_vars

-----------------------------------------------------------------------------
(* Structured mode: parse_json and its helpers.                            *)
(*                                                                         *)
(* A mapping of the report is a record with one field per key the parser   *)
(* reads; a key the mapping lacks holds "absent", and kind tells a mapping *)
(* ("dict") from null ("None").  A helper returns [exc, value]: the name   *)
(* of the exception it raised ("" for none) and the text it returned, <<>> *)
(* standing for None.                                                      *)

\* `key in mapping`
HasKey(value) == value # "absent"

\* truth of mapping.get(key, None)
GetTruth(value) == value \notin {"absent", "None", "", "False"}

\* truth of a mapping or None: a mapping with at least one key
MappingTruth(mapping, keys) ==
    /\ mapping.kind = "dict"
    /\ \E key \in keys : HasKey(mapping[key])

Returned(text) == [exc |-> "", value |-> text]
Raised(exception) == [exc |-> exception, value |-> <<>>]

VersionKeys == {"status", "number", "release_date", "confidence", "found_by"}
ItemKeys == {"slug", "outdated", "latest_version", "directory_listing",
             "error_log_url", "location", "confidence", "version"}

\* parse_confidence(finding)
ParseConfidence(finding) ==
    IF HasKey(finding.confidence)
    THEN <<"\nConfidence: ", finding.confidence>>
    ELSE <<>>

\* parse_warning_wordpress(finding): fdata is bound only for an insecure
\* version, and returned in every case
ParseWarningWordpress(finding) ==
    IF ~MappingTruth(finding, VersionKeys)
    THEN Returned(<<>>)
    ELSE IF finding.status = "insecure"
    THEN IF ~HasKey(finding.number) \/ ~HasKey(finding.release_date)
         THEN Raised("KeyError")
         ELSE Returned(<<"Insecure WordPress version ", finding.number,
                         " identified (released on ", finding.release_date, ")">>
                         \o ParseConfidence(finding))
    ELSE Raised("UnboundLocalError")

\* parse_warning_theme_or_plugin(finding)
ParseWarningThemeOrPlugin(finding) ==
    IF ~MappingTruth(finding, ItemKeys)
    THEN Returned(<<>>)
    ELSE IF GetTruth(finding.outdated) /\ ~HasKey(finding.latest_version)
    THEN Raised("KeyError")
    ELSE LET issue_data ==
                 (IF GetTruth(finding.outdated)
                  THEN <<"\nThe version is out of date, the latest version is ",
                         finding.latest_version>>
                  ELSE <<>>)
                   \o (IF GetTruth(finding.directory_listing)
                       THEN <<"\nDirectory listing is enabled">> ELSE <<>>)
                   \o (IF GetTruth(finding.error_log_url)
                       THEN <<"\nAn error log file has been found: ",
                              finding.error_log_url>>
                       ELSE <<>>)
         IN  IF issue_data = <<>>
             THEN Returned(<<>>)
             ELSE Returned(
                    (IF HasKey(finding.slug) THEN <<finding.slug>> ELSE <<>>)
                      \o issue_data
                      \o (IF HasKey(finding.location)
                          THEN <<"\nLocation: ", finding.location>> ELSE <<>>)
                      \o ParseConfidence(finding))

\* the sanity check of parse_json
NoTargetUrl(report) ==
    \/ report.kind # "dict"
    \/ ~HasKey(report.target_url)
    \/ ~GetTruth(report.target_url)

\* the loop of parse_json over data['plugins'], from plugin k on: the
\* warnings it appends, or the exception that ends it
RECURSIVE PluginsLoop(_, _)
PluginsLoop(plugins, k) ==
    IF k > Len(plugins)
    THEN Returned(<<>>)
    ELSE LET plugin_warning == ParseWarningThemeOrPlugin(plugins[k])
             rest == PluginsLoop(plugins, k + 1)
         IN  IF plugin_warning.exc # ""
             THEN plugin_warning
             ELSE IF rest.exc # ""
             THEN rest
             ELSE IF plugin_warning.value = <<>>
             THEN rest
             ELSE Returned(
                    << plugin_warning.value
                         \o (IF ~GetTruth(plugins[k].version)
                             THEN <<"\nThe ", "version could not be determined",
                                    ", all known vulnerabilites are listed">>
                             ELSE <<>>) >>
                      \o rest.value)

\* parse_json(data): [exc, infos, warnings, alerts]
ParseJson(report) ==
    IF NoTargetUrl(report)
    THEN [exc |-> "ValueError", infos |-> <<>>, warnings |-> <<>>, alerts |-> <<>>]
    ELSE LET wp_warning == ParseWarningWordpress(report.version)
             main_theme_warning == ParseWarningThemeOrPlugin(report.main_theme)
             plugin_warnings == PluginsLoop(report.plugins, 1)
             failed == IF wp_warning.exc # "" THEN wp_warning.exc
                       ELSE IF main_theme_warning.exc # "" THEN main_theme_warning.exc
                       ELSE plugin_warnings.exc
         IN  IF failed # ""
             THEN [exc |-> failed, infos |-> <<>>, warnings |-> <<>>, alerts |-> <<>>]
             ELSE [exc |-> "",
                   infos |-> <<>>,
                   warnings |->
                       (IF wp_warning.value # <<>> THEN <<wp_warning.value>> ELSE <<>>)
                         \o (IF main_theme_warning.value # <<>>
                             THEN <<main_theme_warning.value>> ELSE <<>>)
                         \o plugin_warnings.value,
                   alerts |-> <<>>]

-----------------------------------------------------------------------------
(* SpecJson: parse_json on one decoded report. *)

NoFinding(keys) == [key \in keys \cup {"kind"} |-> IF key = "kind" THEN "None" ELSE "absent"]

\* a mapping with the given keys set and every other key absent
Mapping(keys, set) ==
    [key \in keys \cup {"kind"} |->
        IF key = "kind" THEN "dict"
        ELSE IF key \in DOMAIN set THEN set[key] ELSE "absent"]

VersionFindings ==
    { NoFinding(VersionKeys),
      Mapping(VersionKeys, <<>>),
      Mapping(VersionKeys, [status |-> "insecure", number |-> "4.8",
                            release_date |-> "2017-06-08", confidence |-> "100"]),
      Mapping(VersionKeys, [status |-> "insecure", release_date |-> "2017-06-08"]),
      Mapping(VersionKeys, [status |-> "latest", number |-> "5.4"]),
      Mapping(VersionKeys, [found_by |-> "Rss Generator"]) }

ItemFindings ==
    { NoFinding(ItemKeys),
      Mapping(ItemKeys, [slug |-> "slug", version |-> "1.0"]),
      Mapping(ItemKeys, [slug |-> "slug", outdated |-> "True", latest_version |-> "2.0",
                         location |-> "loc", confidence |-> "80"]),
      Mapping(ItemKeys, [slug |-> "slug", outdated |-> "True"]),
      Mapping(ItemKeys, [slug |-> "slug", directory_listing |-> "True",
                         version |-> "1.0"]),
      Mapping(ItemKeys, [error_log_url |-> "log", outdated |-> "False"]) }

Reports ==
    [kind : {"dict"},
     target_url : {"absent", "None", "", "http://x"},
     version : VersionFindings,
     main_theme : ItemFindings,
     plugins : SeqsOf(ItemFindings, 0, MaxPlugins)]
      \cup {[kind |-> "None", target_url |-> "absent",
             version |-> NoFinding(VersionKeys), main_theme |-> NoFinding(ItemKeys),
             plugins |-> <<>>]}

InitJson ==
    /\ IdleFilter /\ IdleParser /\ IdleItem /\ IdleCli
    /\ IdleResults /\ IdleComponent /\ IdleToogle
    /\ data \in Reports
    /\ json_pc = "start"
    /\ json_infos = <<>>
    /\ json_warnings = <<>>
    /\ json_alerts = <<>>

\* (infos, warnings, alerts) = parse_json(data)
CallParseJson ==
    /\ json_pc = "start"
    /\ LET result == ParseJson(data)
       IN  /\ json_pc' = IF result.exc = "" THEN "done" ELSE result.exc
           /\ json_infos' = result.infos
           /\ json_warnings' = result.warnings
           /\ json_alerts' = result.alerts
    /\ UNCHANGED data
    /\ UNCHANGED <<filterVars, parserVars, itemVars, cliVars,
                   resultsVars, componentVars, toogleVars>>

NextJson == CallParseJson

SpecJson == InitJson /\ [][NextJson]_vars

-----------------------------------------------------------------------------
(* Claims about structured mode. *)

\* the report is a mapping with a non-empty 'target_url'
HasTargetUrl == data.kind = "dict" /\ data.target_url \notin {"absent", "None", ""}

\* the report holds nothing but its 'target_url'
OnlyTargetUrl ==
    /\ HasTargetUrl
    /\ data.version.kind = "None"
    /\ data.main_theme.kind = "None"
    /\ data.plugins = <<>>

\* C8: parse_json rejects a report whose 'target_url' is missing, null or
\* empty with the format error; for a report that is only a non-empty
\* 'target_url' it returns no warning, no alert and exactly one info, the
\* target line.
C8_TargetUrlRequiredAndReported ==
    json_pc # "start" =>
        /\ ~HasTargetUrl => json_pc = "ValueError"
        /\ OnlyTargetUrl =>
              /\ json_pc = "done"
              /\ json_warnings = <<>>
              /\ json_alerts = <<>>
              /\ Len(json_infos) = 1
              /\ Contains(json_infos[1], <<data.target_url>>)

\* C9: for a mapping with a non-empty 'target_url' parse_json returns its
\* three lists without raising, whatever optional fields are absent.
C9_MissingOptionalFieldsNeverRaise ==
    (json_pc # "start" /\ HasTargetUrl) => json_pc = "done"

-----------------------------------------------------------------------------
(* Claims about transcript mode. *)

\* the transcript holds the marker "[+]" somewhere
HasPlusMarker == \E k \in 1..Len(wpscan_output) : wpscan_output[k] = "[+]"

\* C6: a block with a line holding 'The version could not be determined'
\* adds nothing to the alerts parse_cli returns, wherever that line stands
\* among the [!] lines of the block.  (Every transcript of SpecCliBlock is
\* one block.)
C6_UndeterminedBlockNeverAlerts ==
    (cli_pc = "done" /\ Contains(wpscan_output, VersionPhrase))
        => alerts = <<>>

\* C7: parse_cli raises the format error exactly when the transcript holds
\* no "[+]"; it does so before any line is read, so a rejected transcript
\* has produced no message.
C7_FormatErrorIffNoPlus ==
    /\ cli_pc = "ValueError"
          => /\ ~HasPlusMarker
             /\ line_no = 0
             /\ message_lines = <<>>
             /\ messages = <<>> /\ warnings = <<>> /\ alerts = <<>>
    /\ (cli_pc # "start" /\ ~HasPlusMarker) => cli_pc = "ValueError"

\* a transcript with [!] lines in it, rejected for want of a "[+]"
C7_Witness ==
    /\ cli_pc = "ValueError"
    /\ Contains(wpscan_output, <<"[!]">>)
    /\ Contains(wpscan_output, <<"vulnerability identified">>)

\* C10: for a transcript with a "[+]" parse_cli does not raise: the format
\* error is its only failure, whatever the bars of a compound block.
C10_OnlyTheFormatErrorIsRaised ==
    /\ cli_pc \in {"start", "loop", "done", "ValueError"}
    /\ HasPlusMarker => cli_pc # "ValueError"

-----------------------------------------------------------------------------
(* The dispatcher: parse_results.                                          *)
(*                                                                         *)
(* The text handed in is either a transcript or the JSON text of a report; *)
(* format tells which, content holds the transcript's tokens or the report *)
(* the text decodes to.                                                    *)

\* lines of the longest transcript handed to parse_results (SpecResults)
MaxResultLines == 3

\* the tokens of a text, as parse_cli reads them
TextTokens(text) ==
    IF text.format = "text" THEN text.content ELSE <<"{", "json", "}">>

\* json.loads(wpscan_output): the decoded report, or ValueError
JsonLoads(text) ==
    IF text.format = "json" THEN Returned(text.content) ELSE Raised("ValueError")

\* is_json left False whatever the text
DecodesNever(text) == FALSE

\* is_json: json.loads(wpscan_output) did not raise ValueError
Decodes(text) == JsonLoads(text).exc = ""

\* the module-level ignore_false_positives(messages, warnings, alerts,
\* false_positives) that parse_results calls: the file defines no function of
\* that name outside WPScanJsonParser.  Every warning and alert that is a
\* false positive is removed, the others keep their order, and each removed
\* one is added to the infos under the false-positive prefix.
ModuleIgnoreFalsePositives(infos, warns, alrts, fp_strings) ==
    LET positive(m) == ModuleIsFalsePositive(m, fp_strings)
        removed == SelectSeq(warns \o alrts, positive)
    IN  [messages |-> infos \o [k \in 1..Len(removed) |->
                                    FalsePositivePrefixed(removed[k])],
         warnings |-> SelectSeq(warns, LAMBDA m : ~positive(m)),
         alerts |-> SelectSeq(alrts, LAMBDA m : ~positive(m))]

-----------------------------------------------------------------------------
(* SpecResults: parse_results on one text; the pipeline it calls runs as   *)
(* in SpecCli or SpecJson.                                                 *)

ResultsTranscripts ==
    {[format |-> "text", content |-> StrJoin(ls)] :
        ls \in SeqsOf(CliLines, 0, MaxResultLines)}

ResultsReports ==
    {[format |-> "json", content |-> r] :
        r \in {rep \in Reports : /\ rep.target_url \in {"absent", "http://x"}
                                 /\ Len(rep.plugins) < MaxPlugins}}

ResultsFalsePositives == {{}, {<<": a">>, <<"\nDirectory listing is enabled">>}}

NoLists == [messages |-> <<>>, warnings |-> <<>>, alerts |-> <<>>]

InitResults ==
    /\ IdleFilter /\ IdleParser /\ IdleItem /\ IdleCli /\ IdleJson
    /\ IdleComponent /\ IdleToogle
    /\ pr_output \in ResultsTranscripts \cup ResultsReports
    /\ pr_false_positives \in ResultsFalsePositives
    /\ pr_pc = "start"
    /\ is_json = FALSE
    /\ pr_result = NoLists

\* parse_results up to the call of its pipeline: parse_json(data) for a text
\* that decodes, parse_cli(wpscan_output, false_positives) otherwise
ParseResultsDecode ==
    /\ pr_pc = "start"
    /\ is_json' = Decodes(pr_output)
    /\ IF Decodes(pr_output)
       THEN /\ pr_pc' = "parse_json"
            /\ data' = JsonLoads(pr_output).value
            /\ json_pc' = "start"
            /\ UNCHANGED <<json_infos, json_warnings, json_alerts>>
            /\ UNCHANGED cliVars
       ELSE /\ pr_pc' = "parse_cli"
            /\ wpscan_output' = TextTokens(pr_output)
            /\ false_positives' = pr_false_positives
            /\ cli_pc' = "start"
            /\ UNCHANGED <<line_no, message_lines, current_message, warning_on,
                           alert_on, messages, warnings, alerts>>
            /\ UNCHANGED jsonVars
    /\ UNCHANGED <<pr_output, pr_false_positives, pr_result>>
    /\ UNCHANGED <<filterVars, parserVars, itemVars, componentVars, toogleVars>>

\* where the pipeline parse_results called stands
PipelinePc == IF is_json THEN json_pc ELSE cli_pc

\* the pipeline returned: its three lists go through the filter and are
\* returned
ParseResultsReturn ==
    /\ pr_pc \in {"parse_json", "parse_cli"}
    /\ PipelinePc = "done"
    /\ pr_result' =
         IF is_json
         THEN ModuleIgnoreFalsePositives(json_infos, json_warnings, json_alerts,
                                         pr_false_positives)
         ELSE ModuleIgnoreFalsePositives(messages, warnings, alerts,
                                         pr_false_positives)
    /\ pr_pc' = "done"
    /\ UNCHANGED <<pr_output, pr_false_positives, is_json>>
    /\ UNCHANGED <<filterVars, parserVars, itemVars, cliVars, jsonVars,
                   componentVars, toogleVars>>

\* the pipeline raised: parse_results catches nothing after the decoding
ParseResultsRaise ==
    /\ pr_pc \in {"parse_json", "parse_cli"}
    /\ PipelinePc \notin {"start", "loop", "done"}
    /\ pr_pc' = PipelinePc
    /\ UNCHANGED <<pr_output, pr_false_positives, is_json, pr_result>>
    /\ UNCHANGED <<filterVars, parserVars, itemVars, cliVars, jsonVars,
                   componentVars, toogleVars>>

NextResults ==
    \/ ParseResultsDecode
    \/ ParseCliStart
    \/ ParseCliLine
    \/ CallParseJson
    \/ ParseResultsReturn
    \/ ParseResultsRaise

SpecResults == InitResults /\ [][NextResults]_vars

-----------------------------------------------------------------------------
(* Claims about the dispatcher. *)

\* the pipeline's own lists, before the filter
PipelineLists ==
    IF is_json
    THEN [messages |-> json_infos, warnings |-> json_warnings, alerts |-> json_alerts]
    ELSE [messages |-> messages, warnings |-> warnings, alerts |-> alerts]

\* no message of the list holds a false-positive string
NoFalsePositiveIn(list) ==
    \A k \in 1..Len(list) :
        \A fp_string \in pr_false_positives : ~Contains(list[k], fp_string)

\* the messages of the list that hold no false-positive string, in order
Clean(list) ==
    SelectSeq(list, LAMBDA m : \A fp_string \in pr_false_positives :
                                   ~Contains(m, fp_string))

-----------------------------------------------------------------------------
(* SpecCliCompound: parse_cli on one block under a "[+]" heading, whose    *)
(* lines carry the colored warning marker or the uncolored marker.         *)

\* most lines under the heading of a block (SpecCliCompound)
MaxCompoundLines == 5

YellowAnnounceLine ==
    <<" ", "|", " ", "ESC", "[33m", "[!]", "ESC", "[0m", " ", "1 ",
      "vulnerability identified", ":">>
YellowTitleLine ==
    <<" ", "|", " ", "ESC", "[33m", "[!]", "ESC", "[0m", " ", "Title", ": a">>

CompoundLines ==
    {BarLine, ColorWarningLine, YellowAnnounceLine, YellowTitleLine, TitleLineB}

\* the transcripts of SpecCliCompound
CompoundOutputs ==
    {StrJoin(<<PlusLine>> \o ls) : ls \in SeqsOf(CompoundLines, 0, MaxCompoundLines)}

InitCliCompound == CliEntered(CompoundOutputs, BlockFalsePositives)

SpecCliCompound == InitCliCompound /\ [][NextCli]_vars

-----------------------------------------------------------------------------
(* Claims about compound blocks.  Every transcript of SpecCliCompound is   *)
(* one block.                                                              *)

\* the raw lines of the transcript
RawLines == SplitLines(wpscan_output)

\* the line is a title line: it holds the marker and the word Title
IsTitleLine(line) ==
    \E k \in 1..Len(line) : line[k] = "Title"

\* the line is bar-only
IsBarLine(line) == StrStrip(line) = <<"|">>

\* the lines of the transcript that open a title sub-section: the title lines
\* that stand right after a bar-only line
TitleOpeners ==
    {k \in 2..Len(RawLines) : IsTitleLine(RawLines[k]) /\ IsBarLine(RawLines[k - 1])}

\* the messages of the list that start with a title line
TitleMessages(list) ==
    SelectSeq(list, LAMBDA m : m # <<>> /\ IsTitleLine(SplitLines(m)[1]))

\* the block announces vulnerabilities and the colored warning marker has set
\* warning_on in it
ColorWarnedCompound ==
    /\ Contains(wpscan_output, <<"vulnerability identified">>)
    /\ Contains(wpscan_output, <<"[33m", "[!]">>)

\* every [!] of the block is the colored warning marker
OnlyColorWarningMarkers ==
    \A k \in 1..Len(wpscan_output) :
        wpscan_output[k] = "[!]" => (k > 1 /\ wpscan_output[k - 1] = "[33m")

\* C12: in a compound block in which the colored warning marker has set
\* warning_on, every title sub-section is added to warnings and none to
\* alerts.
C12_ColorWarnedTitlesAreWarnings ==
    (cli_pc = "done" /\ ColorWarnedCompound) =>
        /\ alerts = <<>>
        /\ Len(TitleMessages(warnings)) = Cardinality(TitleOpeners)

-----------------------------------------------------------------------------
(* The classes of the structured report, method by method.                 *)
(*                                                                         *)
(* What a method gives is [kind, items]: kind is "list" when it returns a  *)
(* list (items holds its strings), "None" when it runs to its end without  *)
(* a return statement, and the name of the exception when it raises.       *)

ListOf(strings) == [kind |-> "list", items |-> strings]
NoneValue == [kind |-> "None", items |-> <<>>]
RaisedIn(exception) == [kind |-> exception, items |-> <<>>]

\* data.get(key, None) for a str field
Get(mapping, key) == IF key \in DOMAIN mapping THEN mapping[key] ELSE "None"

\* data.get(key, None) for a list or dict field: <<>> stands for None and
\* for the empty one, which are equally false
GetList(mapping, key) == IF key \in DOMAIN mapping THEN mapping[key] ELSE <<>>

\* the result of a call used by its caller: an exception goes through, None
\* cannot be indexed or iterated (TypeError), a list is handed to then
Bind(result, then(_)) ==
    IF result.kind = "list" THEN then(result.items)
    ELSE IF result.kind = "None" THEN RaisedIn("TypeError")
    ELSE result

\* separator.join(strs)
RECURSIVE JoinWith(_, _)
JoinWith(strs, separator) ==
    IF strs = <<>> THEN <<>>
    ELSE IF Len(strs) = 1 THEN <<strs[1]>>
    ELSE <<strs[1], separator>> \o JoinWith(Tail(strs), separator)

\* [prefix.format(m) for m in list]
Prefixed(prefix, list) == [k \in 1..Len(list) |-> <<prefix>> \o list[k]]

\* [prefix.format(super().method()[i]) for i in range(...)]: the call of
\* super() without arguments stands inside the comprehension.  An interpreter
\* that inlines comprehensions (Python 3.12 on) gives the list; an older one
\* runs the comprehension as a function of its own, where super() finds no
\* instance and raises TypeError.
PrefixedBySuper(prefix, list, inlined) ==
    IF inlined THEN ListOf(Prefixed(prefix, list)) ELSE RaisedIn("TypeError")

\* Finding.get_infos: one info; a finding with a confirmed_by entry raises,
\* its format string has two fields and one argument
FindingGetInfos(finding) ==
    IF GetList(finding, "confirmed_by") # <<>>
    THEN RaisedIn("IndexError")
    ELSE ListOf(<<
           (IF Truthy(Get(finding, "found_by"))
            THEN <<"Found by: ", finding.found_by>> ELSE <<>>)
             \o (IF Truthy(Get(finding, "confidence"))
                 THEN <<"(confidence: ", finding.confidence, ")">> ELSE <<>>)
             \o (IF GetList(finding, "interesting_entries") # <<>>
                 THEN <<"\nInteresting entries: \n- ">>
                        \o JoinWith(finding.interesting_entries, "\n- ")
                 ELSE <<>>) >>)

\* WPItemVersion.get_infos
WPItemVersionGetInfos(version) ==
    Bind(FindingGetInfos(version),
         LAMBDA infos : ListOf(<< <<"Version: ", Get(version, "number"), " ", "\n">>
                                    \o infos[1] >>))

\* WPItem.get_infos: one info
WPItemGetInfos(item) ==
    LET head ==
            (IF Truthy(Get(item, "location"))
             THEN <<"\nLocation: ", item.location>> ELSE <<>>)
              \o (IF Truthy(Get(item, "latest_version"))
                  THEN <<"\nLatest Version: ", item.latest_version, " ",
                         IF ~item.outdated THEN "(up to date)" ELSE "">>
                  ELSE <<>>)
              \o (IF Truthy(Get(item, "last_updated"))
                  THEN <<"\nLast Updated: ", item.last_updated>> ELSE <<>>)
              \o (IF Truthy(Get(item, "readme_url"))
                  THEN <<"\nReadme: ", item.readme_url>> ELSE <<>>)
    IN  IF Get(item, "slug") = "None" /\ head # <<>>
        THEN RaisedIn("TypeError")
        ELSE Bind(IF ObjectTruth(item.version)
                  THEN WPItemVersionGetInfos(item.version)
                  ELSE ListOf(<<VersionPhrase>>),
               LAMBDA version_infos :
                 IF Get(item, "slug") = "None"
                 THEN RaisedIn("TypeError")
                 ELSE Bind(FindingGetInfos(item),
                        LAMBDA infos :
                          ListOf(<< <<item.slug>> \o head \o <<"\n">>
                                      \o version_infos[1] \o infos[1] >>)))

\* Plugin.get_infos, get_warnings, get_alerts
PluginGetInfos(item) ==
    Bind(WPItemGetInfos(item), LAMBDA infos : ListOf(<< <<"Plugin: ">> \o infos[1] >>))

PluginGetWarnings(item, inlined) ==
    IF WPItemGetWarnings(item) # <<>>
    THEN PrefixedBySuper("Plugin Warning: ", WPItemGetWarnings(item), inlined)
    ELSE NoneValue

PluginGetAlerts(item, inlined) ==
    IF WPItemGetAlerts(item) # <<>>
    THEN PrefixedBySuper("Plugin Vulnerability: ", WPItemGetAlerts(item), inlined)
    ELSE NoneValue

\* the fields Theme adds to WPItem, with the label get_infos gives each
ThemeFields ==
    << <<"style_url", "\nStyle URL: ">>, <<"style_name", "\nStyle Name: ">>,
       <<"style_uri", "\nStyle URI:: ">>, <<"description", "\nDescription: ">>,
       <<"author", "\nAuthor: ">>, <<"author_uri", "\nAuthor URI: ">>,
       <<"template", "\nTemplate: ">>, <<"license", "\nLicense: ">>,
       <<"license_uri", "\nLicense URI: ">>, <<"tags", "\nTags: ">>,
       <<"text_domain", "\nDomain ">> >>

\* Theme.get_infos, get_warnings, get_alerts
ThemeGetInfos(item) ==
    Bind(WPItemGetInfos(item),
      LAMBDA item_infos :
        Bind(FindingGetInfos(item),
          LAMBDA infos :
            ListOf(<< <<"Theme: ">> \o item_infos[1]
                \o Flatten([k \in 1..Len(ThemeFields) |->
                      IF Truthy(Get(item, ThemeFields[k][1]))
                      THEN <<ThemeFields[k][2], item[ThemeFields[k][1]]>>
                      ELSE <<>>])
                \o <<"\n">> \o infos[1]
                \o (IF GetList(item, "parents") # <<>>
                    THEN <<"\nParent Theme(s): ">>
                           \o JoinWith([k \in 1..Len(item.parents) |->
                                           Get(item.parents[k], "slug")], ", ")
                    ELSE <<>>) >>)))

ThemeGetWarnings(item, inlined) ==
    IF WPItemGetWarnings(item) # <<>>
    THEN PrefixedBySuper("Theme Warning: ", WPItemGetWarnings(item), inlined)
    ELSE NoneValue

ThemeGetAlerts(item, inlined) ==
    IF WPItemGetAlerts(item) # <<>>
    THEN PrefixedBySuper("Theme Vulnerability: ", WPItemGetAlerts(item), inlined)
    ELSE NoneValue

\* MainTheme.get_infos, get_warnings, get_alerts: None is false, a list
\* Theme returns is never empty, and an exception of Theme goes through
MainThemeGetInfos(item) ==
    Bind(ThemeGetInfos(item),
         LAMBDA infos : ListOf(<< <<"Main Theme: ">> \o infos[1] >>))

MainThemeGetWarnings(item, inlined) ==
    LET theme_warnings == ThemeGetWarnings(item, inlined)
    IN  IF theme_warnings.kind = "list"
        THEN ListOf(Prefixed("Main Theme Warning: ", theme_warnings.items))
        ELSE theme_warnings

MainThemeGetAlerts(item, inlined) ==
    LET theme_alerts == ThemeGetAlerts(item, inlined)
    IN  IF theme_alerts.kind = "list"
        THEN ListOf(Prefixed("Main Theme Vulnerability: ", theme_alerts.items))
        ELSE theme_alerts

\* Timthumb.get_infos, get_warnings, get_alerts; self.url is None
TimthumbGetInfos(item) ==
    Bind(FindingGetInfos(item),
      LAMBDA infos :
        Bind(IF ObjectTruth(item.version)
             THEN WPItemVersionGetInfos(item.version)
             ELSE ListOf(<<VersionPhrase>>),
          LAMBDA version_infos :
            ListOf(<< <<"Timthumb: ", "None", "\n">> \o infos[1] \o <<"\n">>
                        \o version_infos[1] >>)))

TimthumbGetWarnings(item) == ListOf(<<>>)

TimthumbGetAlerts(item) ==
    IF FindingGetAlerts(item) # <<>>
    THEN ListOf(Prefixed("Timthumb Vulnerability: ",
                         FindingGetAlerts(item) \o WPItemVersionGetAlerts(item.version)))
    ELSE NoneValue

\* WPVersion.get_infos, get_warnings, get_alerts
WPVersionGetInfos(version) ==
    Bind(FindingGetInfos(version),
      LAMBDA infos :
        ListOf(<<
          (IF Truthy(Get(version, "number"))
           THEN <<"Wordpress Version: ", version.number>>
                  \o (IF Truthy(Get(version, "release_date"))
                      THEN <<"Release Date: ", version.release_date>> ELSE <<>>)
                  \o (IF Truthy(Get(version, "status"))
                      THEN <<"Status: ", StrTitle(version.status)>> ELSE <<>>)
           ELSE <<"Wordpress Version: The WordPress version could not be detected">>)
            \o (IF infos[1] # <<>> THEN <<"\n">> \o infos[1] ELSE <<>>) >>))

WPVersionGetWarnings(version) ==
    IF Get(version, "status") = "insecure"
    THEN ListOf(<< <<"Wordpress Version Warning: ", "Insecure WordPress version ",
                     Get(version, "number"), " identified (released on ",
                     Get(version, "release_date"), ")">> >>)
    ELSE ListOf(<<>>)

WPVersionGetAlerts(version) ==
    IF FindingGetAlerts(version) # <<>>
    THEN ListOf(Prefixed("Wordpress Version Vulnerability: ", FindingGetAlerts(version)))
    ELSE NoneValue

\* User.get_infos, get_warnings, get_alerts; username is the first argument
\* of the constructor, and get_infos formats the list Finding returns
UserGetInfos(user) ==
    Bind(FindingGetInfos(user),
         LAMBDA infos : ListOf(<< <<"User Identified: ", user.username, "\n", "['">>
                                    \o infos[1] \o <<"']">> >>))

UserGetWarnings(user) == ListOf(<<>>)

UserGetAlerts(user) ==
    IF Truthy(Get(user, "password"))
    THEN ListOf(<< <<"Username: ", user.username, "Password: ", user.password>> >>)
    ELSE ListOf(<<>>)

\* Vulnerability.get_alerts: the title is None when the mapping has none, and
\* a str is added to it
VulnerabilityGetAlerts(vuln) ==
    IF Get(vuln, "title") = "None"
    THEN RaisedIn("TypeError")
    ELSE ListOf(<<VulnerabilityAlert(vuln)>>)

\* what the method of the class returns for an instance built from the data,
\* under an interpreter that inlines comprehensions or under one that does not
MethodOf(class, method, mapping, inlined) ==
    CASE class = "Vulnerability" ->
           (IF method = "get_alerts" THEN VulnerabilityGetAlerts(mapping)
                                     ELSE ListOf(<<>>))
      [] class = "WPItemVersion" ->
           (CASE method = "get_infos" -> WPItemVersionGetInfos(mapping)
              [] method = "get_warnings" -> ListOf(<<>>)
              [] method = "get_alerts" -> ListOf(WPItemVersionGetAlerts(mapping)))
      [] class = "WPItem" ->
           (CASE method = "get_infos" -> WPItemGetInfos(mapping)
              [] method = "get_warnings" -> ListOf(WPItemGetWarnings(mapping))
              [] method = "get_alerts" -> ListOf(WPItemGetAlerts(mapping)))
      [] class = "Plugin" ->
           (CASE method = "get_infos" -> PluginGetInfos(mapping)
              [] method = "get_warnings" -> PluginGetWarnings(mapping, inlined)
              [] method = "get_alerts" -> PluginGetAlerts(mapping, inlined))
      [] class = "Theme" ->
           (CASE method = "get_infos" -> ThemeGetInfos(mapping)
              [] method = "get_warnings" -> ThemeGetWarnings(mapping, inlined)
              [] method = "get_alerts" -> ThemeGetAlerts(mapping, inlined))
      [] class = "MainTheme" ->
           (CASE method = "get_infos" -> MainThemeGetInfos(mapping)
              [] method = "get_warnings" -> MainThemeGetWarnings(mapping, inlined)
              [] method = "get_alerts" -> MainThemeGetAlerts(mapping, inlined))
      [] class = "Timthumb" ->
           (CASE method = "get_infos" -> TimthumbGetInfos(mapping)
              [] method = "get_warnings" -> TimthumbGetWarnings(mapping)
              [] method = "get_alerts" -> TimthumbGetAlerts(mapping))
      [] class = "WPVersion" ->
           (CASE method = "get_infos" -> WPVersionGetInfos(mapping)
              [] method = "get_warnings" -> WPVersionGetWarnings(mapping)
              [] method = "get_alerts" -> WPVersionGetAlerts(mapping))
      [] class = "User" ->
           (CASE method = "get_infos" -> UserGetInfos(mapping)
              [] method = "get_warnings" -> UserGetWarnings(mapping)
              [] method = "get_alerts" -> UserGetAlerts(mapping))

\* the classes built on WPItemVersion(data.get('version', None))
VersionedClasses == {"WPItem", "Plugin", "Theme", "MainTheme", "Timthumb"}

\* class(data): "built", or the exception that ends the construction.
\* WPItemVersion(None) calls None.get; the methods of PasswordAttack are
\* defined inside its __init__, so the class keeps the abstract methods of
\* Component and cannot be instantiated.
Construct(class, mapping) ==
    IF class = "PasswordAttack" THEN "TypeError"
    ELSE IF class \in VersionedClasses /\ mapping.version.kind = "None"
    THEN "AttributeError"
    ELSE IF /\ class \in {"Theme", "MainTheme"}
            /\ \E k \in 1..Len(GetList(mapping, "parents")) :
                   mapping.parents[k].version.kind = "None"
    THEN "AttributeError"
    ELSE "built"

-----------------------------------------------------------------------------
(* SpecComponent: one component is built from its data, then its three     *)
(* methods are called once each, in any order.                             *)

Methods == {"get_infos", "get_warnings", "get_alerts"}

ComponentClasses ==
    {"Vulnerability", "WPItemVersion", "WPItem", "Plugin", "Theme", "MainTheme",
     "Timthumb", "WPVersion", "User", "PasswordAttack"}

ComponentVersions ==
    { [kind |-> "None", number |-> "None", vulnerabilities |-> <<>>],
      [kind |-> "dict", number |-> "1.0", vulnerabilities |-> <<>>],
      [kind |-> "dict", number |-> "1.0", vulnerabilities |-> <<>>,
       found_by |-> "Style", confidence |-> "80",
       interesting_entries |-> <<"e1", "e2">>],
      [kind |-> "dict", number |-> "None", vulnerabilities |-> <<>>,
       confirmed_by |-> <<"Readme">>] }

ComponentItems ==
    [slug : {"slug"},
     location : {"None", "loc"},
     latest_version : {"2.0"},
     outdated : BOOLEAN,
     directory_listing : {FALSE},
     error_log_url : {"None"},
     version : ComponentVersions,
     vulnerabilities : SeqsOf(VulnerabilityData, 0, MaxVulns)]
      \cup
    { [slug |-> "slug", location |-> "None", latest_version |-> "None",
       outdated |-> FALSE, directory_listing |-> TRUE, error_log_url |-> "log",
       version |-> [kind |-> "dict", number |-> "1.0", vulnerabilities |-> <<>>],
       vulnerabilities |-> <<>>, last_updated |-> "2020", readme_url |-> "readme",
       found_by |-> "Urls", style_url |-> "css", tags |-> "blog",
       parents |-> <<[slug |-> "parent", version |-> v]>>] :
        v \in ComponentVersions }

ComponentWPVersions ==
    [number : {"None", "5.4"},
     release_date : {"None", "2020"},
     status : {"None", "insecure", "latest"},
     found_by : {"None", "Rss"},
     vulnerabilities : SeqsOf(VulnerabilityData, 0, 1)]

ComponentUsers ==
    [username : {"None", "", "admin"},
     id : {"None", "1"},
     password : {"None", "", "pw"}]

ComponentData(class) ==
    CASE class = "Vulnerability" ->
           VulnerabilityData
             \cup {[title |-> "None", cvss |-> "None", fixed_in |-> "None",
                    references |-> <<>>]}
      [] class = "WPItemVersion" -> {v \in ComponentVersions : v.kind = "dict"}
      [] class \in VersionedClasses -> ComponentItems
      [] class = "WPVersion" -> ComponentWPVersions
      [] class = "User" -> ComponentUsers
      [] class = "PasswordAttack" ->
           {<<>>, <<[username |-> "admin", password |-> "pw"]>>}

NotCalled == [kind |-> "uncalled", items |-> <<>>]

InitComponent ==
    /\ IdleFilter /\ IdleParser /\ IdleItem /\ IdleCli /\ IdleJson
    /\ IdleResults /\ IdleToogle
    /\ c_class \in ComponentClasses
    /\ c_data \in ComponentData(c_class)
    /\ c_pc = "new"
    /\ c_returned = [method \in Methods |-> NotCalled]

\* class(data)
ComponentInit ==
    /\ c_pc = "new"
    /\ c_pc' = Construct(c_class, c_data)
    /\ UNCHANGED <<c_class, c_data, c_returned>>
    /\ UNCHANGED <<filterVars, parserVars, itemVars, cliVars, jsonVars,
                   resultsVars, toogleVars>>

\* c_returned after component.method() has run
Called(method, inlined) ==
    [c_returned EXCEPT ![method] = MethodOf(c_class, method, c_data, inlined)]

\* component.get_infos()
ComponentGetInfos ==
    /\ c_pc = "built"
    /\ c_returned["get_infos"] = NotCalled
    /\ \E inlined \in BOOLEAN : c_returned' = Called("get_infos", inlined)
    /\ UNCHANGED <<c_class, c_data, c_pc>>
    /\ UNCHANGED <<filterVars, parserVars, itemVars, cliVars, jsonVars,
                   resultsVars, toogleVars>>

\* component.get_warnings()
ComponentGetWarnings ==
    /\ c_pc = "built"
    /\ c_returned["get_warnings"] = NotCalled
    /\ \E inlined \in BOOLEAN : c_returned' = Called("get_warnings", inlined)
    /\ UNCHANGED <<c_class, c_data, c_pc>>
    /\ UNCHANGED <<filterVars, parserVars, itemVars, cliVars, jsonVars,
                   resultsVars, toogleVars>>

\* component.get_alerts()
ComponentGetAlerts ==
    /\ c_pc = "built"
    /\ c_returned["get_alerts"] = NotCalled
    /\ \E inlined \in BOOLEAN : c_returned' = Called("get_alerts", inlined)
    /\ UNCHANGED <<c_class, c_data, c_pc>>
    /\ UNCHANGED <<filterVars, parserVars, itemVars, cliVars, jsonVars,
                   resultsVars, toogleVars>>

NextComponent ==
    \/ ComponentInit
    \/ ComponentGetInfos
    \/ ComponentGetWarnings
    \/ ComponentGetAlerts

SpecComponent == InitComponent /\ [][NextComponent]_vars

-----------------------------------------------------------------------------
(* Claims about the classes of the structured report. *)

\* C13: User.get_alerts returns exactly one alert if the username and the
\* password are both present and non-empty, and no alert otherwise.
C13_UserAlertIffUsernameAndPassword ==
    (c_class = "User" /\ c_returned["get_alerts"] # NotCalled) =>
        /\ c_returned["get_alerts"].kind = "list"
        /\ Len(c_returned["get_alerts"].items) =
             IF c_data.username \notin {"None", ""} /\ c_data.password \notin {"None", ""}
             THEN 1 ELSE 0

\* C19: whatever the class and the mapping, each of get_infos, get_warnings
\* and get_alerts returns a list of strings, empty when the component has
\* nothing to report.
C19_EveryMethodReturnsAList ==
    \A method \in Methods : c_returned[method].kind \in {"uncalled", "list"}

-----------------------------------------------------------------------------
(* Claims about the splitting of compound blocks (SpecCliCompound). *)

\* the line as parse_cli keeps it: stripped, without its color codes
Kept(line) == RemoveColors(StrStrip(line))

\* the last line of the sub-section that line k opens: the line before the
\* next bar-only line, or the last line of the block
SectionEnd(k) ==
    LET bars == {j \in (k + 1)..Len(RawLines) : IsBarLine(RawLines[j])}
    IN  IF bars = {} THEN Len(RawLines)
        ELSE (CHOOSE j \in bars : \A h \in bars : j <= h) - 1

\* the message of the sub-section that line k opens
SectionMessage(k) ==
    StrJoin([j \in 1..(SectionEnd(k) - k + 1) |-> Kept(RawLines[k + j - 1])])

\* the messages of the title sub-sections, in the order of the block
RECURSIVE TitleSectionsFrom(_)
TitleSectionsFrom(k) ==
    IF k > Len(RawLines) THEN <<>>
    ELSE (IF k \in TitleOpeners THEN <<SectionMessage(k)>> ELSE <<>>)
           \o TitleSectionsFrom(k + 1)

\* parse_cli has ended on a block that announces vulnerabilities (the line
\* that does so sets a toggle, so the block is a compound block)
EndedCompound ==
    /\ cli_pc \notin {"start", "loop"}
    /\ Contains(wpscan_output, <<"vulnerability identified">>)

\* alert_on is set when the block is closed: a line holds a [!] that is not
\* the colored warning marker
AlertOnAtClose == ~OnlyColorWarningMarkers

\* C14: a compound block is split on its bar-only lines; each sub-section
\* whose first line holds the title marker becomes one message, and these
\* messages go, in the order of the block, to alerts when alert_on is set
\* (warning_on set or not) and to warnings otherwise: as many messages as
\* there are title sub-sections.
C14_TitleSectionsBecomeMessages ==
    EndedCompound =>
        IF AlertOnAtClose
        THEN /\ alerts = TitleSectionsFrom(1)
             /\ TitleMessages(warnings) = <<>>
        ELSE /\ alerts = <<>>
             /\ TitleMessages(warnings) = TitleSectionsFrom(1)

\* the lines of the block that open a sub-section other than a title
\* sub-section: the heading, and the lines right after a bar-only line that
\* are neither a title line nor bar-only
OtherOpeners ==
    {k \in 1..Len(RawLines) :
        /\ k = 1 \/ IsBarLine(RawLines[k - 1])
        /\ ~IsBarLine(RawLines[k])
        /\ ~IsTitleLine(RawLines[k])}

\* the messages of these sub-sections, in the order of the block
RECURSIVE OtherSectionsFrom(_)
OtherSectionsFrom(k) ==
    IF k > Len(RawLines) THEN <<>>
    ELSE (IF k \in OtherOpeners THEN <<SectionMessage(k)>> ELSE <<>>)
           \o OtherSectionsFrom(k + 1)

\* the residual message of the block
Residual == StrJoin(OtherSectionsFrom(1))

\* the messages of the list that do not start with a title line
OtherMessages(list) ==
    SelectSeq(list, LAMBDA m : m = <<>> \/ ~IsTitleLine(SplitLines(m)[1]))

\* a title sub-section of the block is not a false positive
SomeTitleIsReal ==
    \E i \in 1..Len(TitleSectionsFrom(1)) :
        \A fp_string \in false_positives :
            ~Contains(TitleSectionsFrom(1)[i], fp_string)

\* C15: the sub-sections of a compound block that are not title
\* sub-sections are joined into one residual message.  It is appended to
\* warnings when a title sub-section of the block is not a false positive,
\* and otherwise to the info list with the prefix "[False positive]"; it is
\* never in alerts and never in both lists.
C15_OneResidualMessage ==
    EndedCompound =>
        /\ OtherMessages(alerts) = <<>>
        /\ IF SomeTitleIsReal
           THEN /\ OtherMessages(warnings) = <<Residual>>
                /\ messages = <<>>
           ELSE /\ messages = <<FalsePositivePrefixed(Residual)>>
                /\ OtherMessages(warnings) = <<>>

-----------------------------------------------------------------------------
(* Claims about the blocks of any transcript (SpecCli).                    *)

\* the text holds none of the two phrases that announce vulnerabilities
NoAnnouncement(text) ==
    /\ ~Contains(text, <<"vulnerability identified">>)
    /\ ~Contains(text, <<"vulnerabilities identified">>)

\* this round of the loop closes the block read so far
BlockCloses ==
    /\ cli_pc = "loop"
    /\ cli_pc' \in {"loop", "done"}
    /\ current_message # <<>>
    /\ message_lines' = <<>>

\* what closing a block without an announcement does: one message, to
\* warnings when warning_on is set and to the info list otherwise
NonCompoundEmitted ==
    /\ alerts' = alerts
    /\ IF warning_on
       THEN warnings' = Append(warnings, current_message) /\ messages' = messages
       ELSE messages' = Append(messages, current_message) /\ warnings' = warnings

\* every alert starts with a title line, and the transcript announces
\* vulnerabilities
AlertsAreTitleSections ==
    \A i \in 1..Len(alerts) :
        /\ alerts[i] # <<>>
        /\ IsTitleLine(SplitLines(alerts[i])[1])
        /\ ~NoAnnouncement(wpscan_output)

\* C16: a block that holds neither 'vulnerability identified' nor
\* 'vulnerabilities identified' is emitted as one message, to warnings when
\* warning_on is set and to the info list otherwise, and never to alerts,
\* alert_on set or not; every entry of alerts is a title sub-section of a
\* block that announces vulnerabilities.
C16_NonCompoundNeverInAlerts ==
    /\ []AlertsAreTitleSections
    /\ [][(BlockCloses /\ NoAnnouncement(current_message)) => NonCompoundEmitted]_vars

\* parse_cli has returned on a transcript without an announcement in which a
\* title line has set alert_on: the title is in the info list, not in alerts
C16_Witness ==
    /\ cli_pc = "done"
    /\ NoAnnouncement(wpscan_output)
    /\ alerts = <<>>
    /\ \E i \in 1..Len(messages) : Contains(messages[i], <<"[!]", " ", "Title">>)

\* the line that this round of the loop reads, stripped and without colors
RoundLine == Kept(CliLoopLines(wpscan_output)[line_no + 1])

\* this round reads a blank line, the last one of the loop included, after
\* at least one line that is neither empty nor bar-only
BlankAfterContent ==
    /\ cli_pc = "loop"
    /\ RoundLine = <<>>
    /\ current_message # <<>>

\* the number of messages emitted so far
Emitted == Len(messages) + Len(warnings) + Len(alerts)

\* the round closes the block: it emits it, and resets the lines and both
\* toggles
ClosesBlock ==
    /\ Emitted' > Emitted
    /\ message_lines' = <<>>
    /\ current_message' = <<>>
    /\ ~warning_on'
    /\ ~alert_on'

\* the round leaves the block open: nothing is emitted, and the line joins
\* the lines of the block
KeepsBlockOpen ==
    /\ UNCHANGED <<messages, warnings, alerts>>
    /\ message_lines' = Append(message_lines, RoundLine)

\* parse_cli has ended on a transcript that holds "[+]"
EndedCli == cli_pc \notin {"start", "loop", "ValueError"}

\* C18: a round of the loop closes the block exactly when it reads a blank
\* line after at least one line that is neither empty nor bar-only, and
\* then resets the lines and both toggles, so that both toggles are false
\* as long as the block has no such line; the "" appended to the lines
\* closes the last block, and parse_cli returns with nothing left unemitted.
C18_BlocksCloseAtBlankLines ==
    /\ [][BlankAfterContent => ClosesBlock]_vars
    /\ [][(cli_pc = "loop" /\ ~BlankAfterContent) => KeepsBlockOpen]_vars
    /\ []((cli_pc = "loop" /\ current_message = <<>>) => (~warning_on /\ ~alert_on))
    /\ [](EndedCli => (cli_pc = "done" /\ current_message = <<>>))

\* the lines of the transcript, stripped and without colors
TranscriptLines == [k \in 1..Len(RawLines) |-> Kept(RawLines[k])]

\* the lines of the messages of a list, one after the other
RECURSIVE LinesOf(_)
LinesOf(list) ==
    IF list = <<>> THEN <<>>
    ELSE SplitLines(Head(list)) \o LinesOf(Tail(list))

\* the lines of every message of the three lists
EmittedLines == LinesOf(messages \o warnings \o alerts)

\* how many times the line stands in the sequence of lines
Occurrences(lines, line) == Cardinality({k \in 1..Len(lines) : lines[k] = line})

\* C20: every block is classified without loss or duplication.  Each line
\* of the transcript that is neither empty nor bar-only stands in exactly
\* one emitted message, and that message in exactly one of the three
\* lists: the line stands as often in the messages of the three lists
\* together as in the transcript, and the lists hold no other line than the
\* "[False positive]" that heads a residual message.
C20_NoLossNoDuplication ==
    EndedCli =>
        \A k \in 1..(Len(TranscriptLines) + Len(EmittedLines)) :
            LET line == IF k <= Len(TranscriptLines)
                        THEN TranscriptLines[k]
                        ELSE EmittedLines[k - Len(TranscriptLines)]
            IN  line \notin {<<>>, <<"|">>, <<"[False positive]">>} =>
                    Occurrences(EmittedLines, line) = Occurrences(TranscriptLines, line)

-----------------------------------------------------------------------------
(* SpecToogle: parse_cli_toogle on the lines of one block.  A line is      *)
(* given by what it holds: which of the three markers, which of the        *)
(* warning phrases if any, the word Insecure, the phrase of the            *)
(* undetermined version.  A block starts with both toggles false, and     *)
(* parse_cli hands the toggles a call returns to the call on the next      *)
(* line.                                                                   *)

Markers == {"yellow", "red", "plain"}

\* the text of a marker: "\x1b[33m[!]\x1b[0m", "\x1b[31m[!]\x1b[0m", "[!]"
MarkerText(marker) ==
    CASE marker = "yellow" -> <<"ESC", "[33m", "[!]", "ESC", "[0m">>
      [] marker = "red" -> <<"ESC", "[31m", "[!]", "ESC", "[0m">>
      [] marker = "plain" -> <<"[!]">>

ToogleFeatures ==
    [markers : SUBSET Markers, phrase : WarningPhrases \cup {"none"},
     insecure : BOOLEAN, undetermined : BOOLEAN]

\* the line that holds these features
ToogleLine(features) ==
    (IF "red" \in features.markers THEN MarkerText("red") \o <<" ">> ELSE <<>>)
    \o (IF "plain" \in features.markers THEN MarkerText("plain") \o <<" ">> ELSE <<>>)
    \o (IF "yellow" \in features.markers THEN MarkerText("yellow") \o <<" ">> ELSE <<>>)
    \o (IF features.phrase # "none" THEN <<features.phrase, " ">> ELSE <<>>)
    \o (IF features.insecure THEN <<"Insecure", " ">> ELSE <<>>)
    \o (IF features.undetermined THEN VersionPhrase ELSE <<>>)

InitToogle ==
    /\ IdleFilter /\ IdleParser /\ IdleItem /\ IdleCli /\ IdleJson
    /\ IdleResults /\ IdleComponent
    /\ t_features \in ToogleFeatures
    /\ t_in = <<FALSE, FALSE>>
    /\ t_out = t_in
    /\ t_pc = "entered"

\* warning_on, alert_on = parse_cli_toogle(line, warning_on, alert_on)
ToogleCall ==
    /\ t_pc = "entered"
    /\ t_out' = ParseCliToogle(ToogleLine(t_features), t_in[1], t_in[2])
    /\ t_pc' = "returned"
    /\ UNCHANGED <<t_features, t_in>>
    /\ UNCHANGED <<filterVars, parserVars, itemVars, cliVars, jsonVars,
                   resultsVars, componentVars>>

\* the loop of parse_cli goes to the next line of the block with the toggles
\* the call returned
ToogleNextLine ==
    /\ t_pc = "returned"
    /\ \E features \in ToogleFeatures : t_features' = features
    /\ t_in' = t_out
    /\ t_pc' = "entered"
    /\ UNCHANGED t_out
    /\ UNCHANGED <<filterVars, parserVars, itemVars, cliVars, jsonVars,
                   resultsVars, componentVars>>

NextToogle == ToogleCall \/ ToogleNextLine

SpecToogle == InitToogle /\ [][NextToogle]_vars

-----------------------------------------------------------------------------
(* Claims about the toggle step.                                           *)

\* the marker rule that applies to the line: the first of the four that
\* matches, 0 when none does
MarkerRule(features) ==
    IF "yellow" \in features.markers THEN 1
    ELSE IF "red" \in features.markers THEN 2
    ELSE IF "plain" \in features.markers /\ features.phrase # "none" THEN 3
    ELSE IF "plain" \in features.markers THEN 4
    ELSE 0

\* the toggles the rule table gives for the line and the incoming toggles
RuleTable(features, w_on, a_on) ==
    LET w_marked == w_on \/ MarkerRule(features) \in {1, 3}
        a_marked == a_on \/ MarkerRule(features) \in {2, 4}
        w_insecure == w_marked \/ features.insecure
        demoted == features.undetermined /\ a_marked
    IN  <<w_insecure \/ demoted, a_marked /\ ~demoted>>

\* C17: parse_cli_toogle gives what the ordered rule table gives, for every
\* line and every incoming warning_on and alert_on: the first matching
\* marker rule, then Insecure, then the demotion of the undetermined
\* version.  warning_on never goes from true to false, and alert_on is
\* cleared only by the demotion, which sets warning_on.
C17_ToogleIsTheRuleTable ==
    t_pc = "returned" =>
        /\ t_out = RuleTable(t_features, t_in[1], t_in[2])
        /\ t_in[1] => t_out[1]
        /\ (t_in[2] /\ ~t_out[2]) => (t_features.undetermined /\ t_out[1])

\* the call has demoted an alert: alert_on came in set, the line holds the
\* uncolored marker and the phrase of the undetermined version
C17_Witness ==
    /\ t_pc = "returned"
    /\ t_in = <<FALSE, TRUE>>
    /\ t_features.markers = {"plain"}
    /\ t_features.undetermined
    /\ t_out = <<TRUE, FALSE>>

=============================================================================
